---- MODULE Spec2Model ----
(***************************************************************************)
(* Model of src/src/graphGenerator.ts: generateGraphData (workflow ->      *)
(* GraphData), generateSVG and generateDot (GraphData -> text).            *)
(*                                                                         *)
(* A JavaScript string is a sequence of one-character strings, so that the *)
(* text generateDot builds can be searched for substrings.  An optional    *)
(* value (T | undefined) is a set: {} is undefined, {v} is the value v.    *)
(***************************************************************************)
EXTENDS Integers, Sequences, FiniteSets, TLC

VARIABLES workflow, data, svg, dot

vars == <<workflow, data, svg, dot>>

----------------------------------------------------------------------------
(* Optional values *)

Undefined == {}

Some(v) == {v}

Get(opt) == CHOOSE v \in opt : TRUE

\* JavaScript truthiness of an optional boolean: `if (node.isBottleneck)`
Truthy(opt) == TRUE \in opt

----------------------------------------------------------------------------
(* Bounds of the inputs *)

\* steps of a workflow
MaxSteps == 2

\* entries of the dependency lists of a workflow, all its steps together
MaxDeps == 2

\* entries of workflow.stepAnalysis
MaxAnalysis == 2

\* nodes of a GraphData handed directly to a renderer
MaxNodes == 2

----------------------------------------------------------------------------
(* Strings *)

StartId == <<"s", "t", "a", "r", "t">>

StartLabel == <<"S", "t", "a", "r", "t">>

EndId == <<"e", "n", "d">>

EndLabel == <<"E", "n", "d">>

S1 == <<"s", "1">>

S2 == <<"s", "2">>

\* an identifier and an agent name made of the characters DOT gives a meaning
ArrowId == <<"a", "-", ">", "b">>

QuoteName == <<"\"", "}", "-", ">">>

Fetcher == <<"F", "e", "t", "c", "h", "e", "r">>

Arrow == <<"-", ">">>

RECURSIVE Concat(_)
\* the concatenation of a sequence of strings (JavaScript's += in a loop)
Concat(ss) == IF ss = <<>> THEN <<>> ELSE Head(ss) \o Concat(Tail(ss))

\* sub occurs in s at position i
OccursAt(s, sub, i) ==
    /\ i + Len(sub) - 1 <= Len(s)
    /\ \A k \in 1..Len(sub) : s[i + k - 1] = sub[k]

\* the number of (possibly overlapping) occurrences of sub in s
Occurrences(s, sub) == Cardinality({i \in 1..Len(s) : OccursAt(s, sub, i)})

Contains(s, sub) == \E i \in 1..Len(s) : OccursAt(s, sub, i)

StartsWith(s, prefix) == Len(prefix) <= Len(s) /\ SubSeq(s, 1, Len(prefix)) = prefix

EndsWith(s, suffix) ==
    Len(suffix) <= Len(s) /\ SubSeq(s, Len(s) - Len(suffix) + 1, Len(s)) = suffix

\* the sequences over S of length at most n
SeqUpTo(S, n) == UNION {[1..k -> S] : k \in 0..n}

\* the number of positions of the sequence s that hold x
CountIn(s, x) == Cardinality({i \in 1..Len(s) : s[i] = x})

----------------------------------------------------------------------------
(* Inputs of generateGraphData *)

StepIds == {S1, S2, StartId, EndId}

DepIds == {S1, StartId}

\* the steps whose dependency list has at most n entries
PlainSteps(n) ==
    [id : StepIds, agentName : {Fetcher}, dependencies : SeqUpTo(DepIds, n)]

RECURSIVE TotalDependencies(_)
\* the number of dependency entries of a sequence of steps
TotalDependencies(ss) ==
    IF ss = <<>> THEN 0 ELSE Len(Head(ss).dependencies) + TotalDependencies(Tail(ss))

RECURSIVE PlainStepSeqs(_, _)
\* the sequences of k steps with at most n dependency entries in all
PlainStepSeqs(k, n) ==
    IF k = 0 THEN {<<>>}
    ELSE UNION { {Append(ss, st) : st \in PlainSteps(n - TotalDependencies(ss))} :
                 ss \in PlainStepSeqs(k - 1, n) }

\* steps whose id and agent name hold '->', '"' and '}'
TextSteps ==
    [id : {ArrowId}, agentName : {QuoteName}, dependencies : {<<>>, <<ArrowId>>}]
    \cup [id : {S1}, agentName : {Fetcher}, dependencies : {<<>>, <<ArrowId>>}]

AnalysedSteps == [id : {S1, S2}, agentName : {Fetcher}, dependencies : {<<>>}]

Measures ==
    { [latency |-> 0, cost |-> 0, isBottleneck |-> FALSE],
      [latency |-> 7, cost |-> 3, isBottleneck |-> TRUE] }

StepAnalysisEntries ==
    { [stepId |-> i, latency |-> m.latency, cost |-> m.cost,
       isBottleneck |-> m.isBottleneck] : i \in {S1, S2}, m \in Measures }

\* workflows without stepAnalysis: every shape of dependencies within the bounds
TopologyWorkflows ==
    [steps : UNION {PlainStepSeqs(k, MaxDeps) : k \in 0..MaxSteps},
     stepAnalysis : {Undefined}]

TextWorkflows == [steps : SeqUpTo(TextSteps, MaxSteps), stepAnalysis : {Undefined}]

AnalysedWorkflows ==
    [steps : SeqUpTo(AnalysedSteps, MaxSteps),
     stepAnalysis : {Undefined}
                    \cup {Some(a) : a \in SeqUpTo(StepAnalysisEntries, MaxAnalysis)}]

Workflows == TopologyWorkflows \cup TextWorkflows \cup AnalysedWorkflows

----------------------------------------------------------------------------
(* generateGraphData *)

\* stepAnalysisMap with the first entry of a key kept instead of the last
stepAnalysisMap_FirstWins(w) ==
    LET list == IF w.stepAnalysis = Undefined THEN <<>> ELSE Get(w.stepAnalysis)
        keys == {list[i].stepId : i \in 1..Len(list)}
        first(k) == CHOOSE i \in 1..Len(list) :
                       /\ list[i].stepId = k
                       /\ \A j \in 1..(i - 1) : list[j].stepId # k
    IN  [k \in keys |-> list[first(k)]]

\* new Map((workflow.stepAnalysis || []).map(s => [s.stepId, s])): a later entry
\* replaces an earlier one with the same key
stepAnalysisMap(w) ==
    LET list == IF w.stepAnalysis = Undefined THEN <<>> ELSE Get(w.stepAnalysis)
        keys == {list[i].stepId : i \in 1..Len(list)}
        last(k) == CHOOSE i \in 1..Len(list) :
                      /\ list[i].stepId = k
                      /\ \A j \in (i + 1)..Len(list) : list[j].stepId # k
    IN  [k \in keys |-> list[last(k)]]

\* Map.get: undefined for a missing key
MapGet(m, k) == IF k \in DOMAIN m THEN Some(m[k]) ELSE Undefined

startNode ==
    [id |-> StartId, label |-> StartLabel, type |-> "start",
     latency |-> Undefined, cost |-> Undefined, isBottleneck |-> Undefined]

endNode ==
    [id |-> EndId, label |-> EndLabel, type |-> "end",
     latency |-> Undefined, cost |-> Undefined, isBottleneck |-> Undefined]

\* agentNode with the step's id as label
agentNode_LabelIsId(step, analysis) ==
    [id |-> step.id, label |-> step.id, type |-> "agent",
     latency |-> IF analysis = Undefined THEN Undefined ELSE Some(Get(analysis).latency),
     cost |-> IF analysis = Undefined THEN Undefined ELSE Some(Get(analysis).cost),
     isBottleneck |->
        IF analysis = Undefined THEN Undefined ELSE Some(Get(analysis).isBottleneck)]

\* analysis?.latency and so on: undefined when there is no analysis
agentNode(step, analysis) ==
    [id |-> step.id, label |-> step.agentName, type |-> "agent",
     latency |-> IF analysis = Undefined THEN Undefined ELSE Some(Get(analysis).latency),
     cost |-> IF analysis = Undefined THEN Undefined ELSE Some(Get(analysis).cost),
     isBottleneck |->
        IF analysis = Undefined THEN Undefined ELSE Some(Get(analysis).isBottleneck)]

agentNodes(w) ==
    [i \in 1..Len(w.steps) |-> agentNode(w.steps[i], MapGet(stepAnalysisMap(w), w.steps[i].id))]

buildNodes(w) == <<startNode>> \o agentNodes(w) \o <<endNode>>

\* dependentSteps.add(step.id) runs once for every entry of step.dependencies
dependentSteps(w) ==
    {w.steps[i].id : i \in {k \in 1..Len(w.steps) : Len(w.steps[k].dependencies) > 0}}

edge(s, t) == [source |-> s, target |-> t]

\* startEdgesOf with the test inverted
startEdgesOf_Inverted(step) ==
    IF Len(step.dependencies) # 0 THEN <<edge(StartId, step.id)>> ELSE <<>>

\* if (step.dependencies.length === 0) edges.push({source: 'start', target: step.id})
startEdgesOf(step) ==
    IF Len(step.dependencies) = 0 THEN <<edge(StartId, step.id)>> ELSE <<>>

\* dependencyEdgesOf with source and target exchanged
dependencyEdgesOf_Reversed(step) ==
    [j \in 1..Len(step.dependencies) |-> edge(step.id, step.dependencies[j])]

\* dependencyEdgesOf with a repeated dependency skipped
dependencyEdgesOf_Deduplicated(step) ==
    LET firsts == {j \in 1..Len(step.dependencies) :
                      \A k \in 1..(j - 1) : step.dependencies[k] # step.dependencies[j]}
        nth(n) == CHOOSE j \in firsts : Cardinality({k \in firsts : k <= j}) = n
    IN  [n \in 1..Cardinality(firsts) |-> edge(step.dependencies[nth(n)], step.id)]

\* for (const dep of step.dependencies) edges.push({source: dep, target: step.id})
dependencyEdgesOf(step) ==
    [j \in 1..Len(step.dependencies) |-> edge(step.dependencies[j], step.id)]

\* if (!dependentSteps.has(step.id)) edges.push({source: step.id, target: 'end'})
endEdgesOf(step, dependents) ==
    IF step.id \notin dependents THEN <<edge(step.id, EndId)>> ELSE <<>>

startEdges(w) == Concat([i \in 1..Len(w.steps) |-> startEdgesOf(w.steps[i])])

dependencyEdges(w) == Concat([i \in 1..Len(w.steps) |-> dependencyEdgesOf(w.steps[i])])

endEdges(w) ==
    Concat([i \in 1..Len(w.steps) |-> endEdgesOf(w.steps[i], dependentSteps(w))])

buildEdges(w) == startEdges(w) \o dependencyEdges(w) \o endEdges(w)

generateGraphData(w) == [nodes |-> buildNodes(w), edges |-> buildEdges(w)]

----------------------------------------------------------------------------
(* generateDot *)

\* 'digraph workflow {\n'
DotOpen ==
    <<"d", "i", "g", "r", "a", "p", "h", " ", "w", "o", "r", "k", "f", "l",
      "o", "w", " ", "{", "\n">>

\* '  rankdir=LR;\n'
DotRankdir ==
    <<" ", " ", "r", "a", "n", "k", "d", "i", "r", "=", "L", "R", ";", "\n">>

\* '  node [shape=box, style=rounded];\n'
DotNodeDefaults ==
    <<" ", " ", "n", "o", "d", "e", " ", "[", "s", "h", "a", "p", "e", "=",
      "b", "o", "x", ",", " ", "s", "t", "y", "l", "e", "=", "r", "o", "u",
      "n", "d", "e", "d", "]", ";", "\n">>

\* 'label="'
DotLabelOpen ==
    <<"l", "a", "b", "e", "l", "=", "\"">>

\* '"'
DotQuote ==
    <<"\"">>

\* ', shape=circle, style=filled, fillcolor=green'
DotStartAttrs ==
    <<",", " ", "s", "h", "a", "p", "e", "=", "c", "i", "r", "c", "l", "e",
      ",", " ", "s", "t", "y", "l", "e", "=", "f", "i", "l", "l", "e", "d",
      ",", " ", "f", "i", "l", "l", "c", "o", "l", "o", "r", "=", "g", "r",
      "e", "e", "n">>

\* ', shape=circle, style=filled, fillcolor=red'
DotEndAttrs ==
    <<",", " ", "s", "h", "a", "p", "e", "=", "c", "i", "r", "c", "l", "e",
      ",", " ", "s", "t", "y", "l", "e", "=", "f", "i", "l", "l", "e", "d",
      ",", " ", "f", "i", "l", "l", "c", "o", "l", "o", "r", "=", "r", "e",
      "d">>

\* ', style=filled, fillcolor=orange'
DotBottleneckAttrs ==
    <<",", " ", "s", "t", "y", "l", "e", "=", "f", "i", "l", "l", "e", "d",
      ",", " ", "f", "i", "l", "l", "c", "o", "l", "o", "r", "=", "o", "r",
      "a", "n", "g", "e">>

\* '  "'
DotIndentQuote ==
    <<" ", " ", "\"">>

\* '" ['
DotQuoteBracket ==
    <<"\"", " ", "[">>

\* '];\n'
DotBracketEnd ==
    <<"]", ";", "\n">>

\* '" -> "'
DotArrow ==
    <<"\"", " ", "-", ">", " ", "\"">>

\* '";\n'
DotQuoteEnd ==
    <<"\"", ";", "\n">>

\* '}\n'
DotClose ==
    <<"}", "\n">>

\* nodeAttrs with the bottleneck test first, as generateSVG has it
nodeAttrs_BottleneckFirst(node) ==
    DotLabelOpen \o node.label \o DotQuote \o
    (IF Truthy(node.isBottleneck) THEN DotBottleneckAttrs
     ELSE IF node.type = "start" THEN DotStartAttrs
     ELSE IF node.type = "end" THEN DotEndAttrs
     ELSE <<>>)

\* let attrs = `label="${node.label}"` and the if / else if chain after it
nodeAttrs(node) ==
    DotLabelOpen \o node.label \o DotQuote \o
    (IF node.type = "start" THEN DotStartAttrs
     ELSE IF node.type = "end" THEN DotEndAttrs
     ELSE IF Truthy(node.isBottleneck) THEN DotBottleneckAttrs
     ELSE <<>>)

\* `  "${node.id}" [${attrs}];\n`
nodeStatement(node) ==
    DotIndentQuote \o node.id \o DotQuoteBracket \o nodeAttrs(node) \o DotBracketEnd

\* edgeStatement with the undirected edge operator
edgeStatement_Undirected(e) ==
    DotIndentQuote \o e.source \o <<"\"", " ", "-", "-", " ", "\"">> \o e.target \o DotQuoteEnd

\* `  "${edge.source}" -> "${edge.target}";\n`
edgeStatement(e) ==
    DotIndentQuote \o e.source \o DotArrow \o e.target \o DotQuoteEnd

generateDot(d) ==
    DotOpen \o DotRankdir \o DotNodeDefaults \o
    Concat([i \in 1..Len(d.nodes) |-> nodeStatement(d.nodes[i])]) \o
    Concat([i \in 1..Len(d.edges) |-> edgeStatement(d.edges[i])]) \o
    DotClose

----------------------------------------------------------------------------
(* generateSVG *)

\* The text of the SVG document is a sequence of its elements, in the order
\* the code appends them.  The calls into d3 (select, forceSimulation) are not
\* code of this repository: they add layout fields to the objects of `data`
\* and replace each edge's endpoints by node objects, so the endpoints an
\* edge's <line> prints are left out of the element, and generateDot is only
\* applied to data that generateSVG has not been given.

DefaultWidth == 800

DefaultHeight == 600

\* let className = `node-${node.type}`; if (node.isBottleneck) className = ...
className(node) ==
    IF Truthy(node.isBottleneck) THEN "node-bottleneck"
    ELSE IF node.type = "start" THEN "node-start"
    ELSE IF node.type = "end" THEN "node-end"
    ELSE "node-agent"

lineElement(e) == [tag |-> "line", class |-> "edge"]

circleElement(node) == [tag |-> "circle", class |-> className(node), id |-> node.id]

textElement(node) == [tag |-> "text", class |-> "label", text |-> node.label]

nodeElements(node) == <<circleElement(node), textElement(node)>>

generateSVG(d, width, height) ==
    <<[tag |-> "svg", width |-> width, height |-> height], [tag |-> "style"]>> \o
    [i \in 1..Len(d.edges) |-> lineElement(d.edges[i])] \o
    Concat([i \in 1..Len(d.nodes) |-> nodeElements(d.nodes[i])]) \o
    <<[tag |-> "/svg"]>>

----------------------------------------------------------------------------
(* Inputs of the renderers when the caller supplies the GraphData itself *)

RenderNodes ==
    [id : {S1}, label : {Fetcher, QuoteName}, type : {"agent", "start", "end"},
     latency : {Undefined}, cost : {Undefined},
     isBottleneck : {Undefined, Some(TRUE), Some(FALSE)}]

\* one edge from the first node to the last when there are two nodes or more
RenderEdges(ns) == IF Len(ns) < 2 THEN <<>> ELSE <<edge(ns[1].id, ns[Len(ns)].id)>>

GraphDatas == {[nodes |-> ns, edges |-> RenderEdges(ns)] : ns \in SeqUpTo(RenderNodes, MaxNodes)}

----------------------------------------------------------------------------
(* Specifications *)

Init ==
    /\ workflow \in Workflows
    /\ data = Undefined
    /\ svg = Undefined
    /\ dot = Undefined

GenerateGraphData ==
    /\ data = Undefined
    /\ data' = Some(generateGraphData(workflow))
    /\ UNCHANGED <<workflow, svg, dot>>

GenerateDot ==
    /\ data # Undefined
    /\ svg = Undefined
    /\ dot = Undefined
    /\ dot' = Some(generateDot(Get(data)))
    /\ UNCHANGED <<workflow, data, svg>>

GenerateSVG ==
    /\ data # Undefined
    /\ svg = Undefined
    /\ svg' = Some(generateSVG(Get(data), DefaultWidth, DefaultHeight))
    /\ UNCHANGED <<workflow, data, dot>>

Next == GenerateGraphData \/ GenerateDot

\* a workflow is turned into GraphData and then into DOT text
Spec == Init /\ [][Next]_vars

EmptyWorkflow == [steps |-> <<>>, stepAnalysis |-> Undefined]

InitRender ==
    /\ workflow = EmptyWorkflow
    /\ data \in {Some(d) : d \in GraphDatas}
    /\ svg = Undefined
    /\ dot = Undefined

NextRender == GenerateSVG \/ GenerateDot

\* the caller hands a GraphData of its own to the renderers
SpecRender == InitRender /\ [][NextRender]_vars

----------------------------------------------------------------------------
(* Properties of generateGraphData *)

Built == data # Undefined

steps == workflow.steps

nodes == Get(data).nodes

edges == Get(data).edges

StepIndexes == 1..Len(steps)

nodeIds == {nodes[i].id : i \in 1..Len(nodes)}

\* the identifiers listed in the dependency list of some step
allDependencies ==
    UNION {{steps[i].dependencies[j] : j \in 1..Len(steps[i].dependencies)} : i \in StepIndexes}

\* step i is listed in the dependency list of another step
ReferencedByOther(i) ==
    \E k \in StepIndexes \ {i} :
        \E j \in 1..Len(steps[k].dependencies) : steps[k].dependencies[j] = steps[i].id

HasEdge(s, t) == \E p \in 1..Len(edges) : edges[p] = edge(s, t)

\* C1: every step that no other step lists as a dependency has an edge
\* step.id -> end in the edge list generateGraphData returns.
C1_UnreferencedStepReachesEnd ==
    Built => \A i \in StepIndexes : ~ReferencedByOther(i) => HasEdge(steps[i].id, EndId)

\* C2: a step that another step lists as a dependency has no edge step.id -> end,
\* and the chain s1, s2 (s2 depends on s1) gives exactly start->s1, s1->s2, s2->end.
C2_ReferencedStepHasNoEndEdge ==
    Built =>
        /\ \A i \in StepIndexes : ReferencedByOther(i) => ~HasEdge(steps[i].id, EndId)
        /\ (/\ Len(steps) = 2
            /\ steps[1].id = S1 /\ steps[1].dependencies = <<>>
            /\ steps[2].id = S2 /\ steps[2].dependencies = <<S1>>)
           => edges = <<edge(StartId, S1), edge(S1, S2), edge(S2, EndId)>>

\* C3: the node list has N + 2 nodes: the start node first, the end node last,
\* and between them one agent node per step, in input order, with the step's
\* id as id and its agentName as label.
C3_NodesAreStartStepsEnd ==
    Built =>
        /\ Len(nodes) = Len(steps) + 2
        /\ nodes[1].id = StartId /\ nodes[1].type = "start"
        /\ nodes[Len(nodes)].id = EndId /\ nodes[Len(nodes)].type = "end"
        /\ \A i \in StepIndexes :
              /\ nodes[i + 1].type = "agent"
              /\ nodes[i + 1].id = steps[i].id
              /\ nodes[i + 1].label = steps[i].agentName

C3_Witness ==
    /\ Built
    /\ Len(steps) = MaxSteps
    /\ steps[1].agentName # steps[2].agentName
    /\ steps[1].id # steps[2].id

UniqueStepIds == \A i, k \in StepIndexes : steps[i].id = steps[k].id => i = k

NoSentinelStepIds == \A i \in StepIndexes : steps[i].id \notin {StartId, EndId}

\* C4 as stated: for every workflow, a step with an empty dependency list has
\* exactly one edge start -> step.id in the whole edge list.
C4_ExactlyOneStartEdge ==
    Built =>
        \A i \in StepIndexes :
            Len(steps[i].dependencies) = 0 => CountIn(edges, edge(StartId, steps[i].id)) = 1

\* C4 amended: when the step ids are pairwise distinct and none is 'start' or
\* 'end', a step with an empty dependency list has exactly one edge
\* start -> step.id in the whole edge list.
C4_ExactlyOneStartEdgeUniqueIds ==
    (Built /\ UniqueStepIds /\ NoSentinelStepIds) => C4_ExactlyOneStartEdge

C4_Witness ==
    /\ Built /\ UniqueStepIds /\ NoSentinelStepIds
    /\ Len(steps) = 2
    /\ steps[1].dependencies = <<>>
    /\ steps[2].dependencies = <<StartId, S1>>
    /\ steps[1].id = S1

analysisList == IF workflow.stepAnalysis = Undefined THEN <<>> ELSE Get(workflow.stepAnalysis)

MetricsEqual(node, e) ==
    /\ node.latency = Some(e.latency)
    /\ node.cost = Some(e.cost)
    /\ node.isBottleneck = Some(e.isBottleneck)

MetricsAbsent(node) ==
    /\ node.latency = Undefined
    /\ node.cost = Undefined
    /\ node.isBottleneck = Undefined

NoEntryFor(i) == \A a \in 1..Len(analysisList) : analysisList[a].stepId # steps[i].id

\* C5 as stated: the node of step s carries the values of every stepAnalysis
\* entry whose stepId is s.id, and no values when there is no such entry.
C5_NodeCarriesEveryEntry ==
    Built =>
        \A i \in StepIndexes :
            /\ \A a \in 1..Len(analysisList) :
                  analysisList[a].stepId = steps[i].id => MetricsEqual(nodes[i + 1], analysisList[a])
            /\ NoEntryFor(i) => MetricsAbsent(nodes[i + 1])

\* C5 amended: the node of step s carries the values of the LAST stepAnalysis
\* entry whose stepId is s.id, and no values when there is no such entry.
C5_NodeCarriesLastEntry ==
    Built =>
        \A i \in StepIndexes :
            /\ \A a \in 1..Len(analysisList) :
                  (/\ analysisList[a].stepId = steps[i].id
                   /\ \A b \in (a + 1)..Len(analysisList) : analysisList[b].stepId # steps[i].id)
                  => MetricsEqual(nodes[i + 1], analysisList[a])
            /\ NoEntryFor(i) => MetricsAbsent(nodes[i + 1])

C5_Witness ==
    /\ Built
    /\ Len(steps) = 2 /\ steps[1].id = S2 /\ steps[2].id = S1
    /\ Len(analysisList) = 2
    /\ analysisList[1].stepId = S1 /\ analysisList[2].stepId = S1
    /\ analysisList[1] # analysisList[2]
    /\ MetricsEqual(nodes[3], analysisList[2])
    /\ MetricsAbsent(nodes[2])

\* C6 as stated: every edge's source and target is the id of a node of the
\* same GraphData.
C6_NoDanglingEndpoint ==
    Built =>
        \A p \in 1..Len(edges) : edges[p].source \in nodeIds /\ edges[p].target \in nodeIds

\* C6 amended: every edge's target is the id of a node of the same GraphData,
\* and so is every edge's source, except a source that is an entry of some
\* step's dependency list naming no node.
C6_OnlyDependenciesDangle ==
    Built =>
        \A p \in 1..Len(edges) :
            /\ edges[p].target \in nodeIds
            /\ edges[p].source \in nodeIds \cup allDependencies

C6_Witness ==
    /\ Built
    /\ \E p \in 1..Len(edges) : edges[p].source \notin nodeIds
    /\ \E p \in 1..Len(edges) : edges[p].source \in nodeIds \ {StartId}

RECURSIVE DependenciesBefore(_)
\* the number of dependency entries of the steps before step i
DependenciesBefore(i) ==
    IF i <= 1 THEN 0 ELSE DependenciesBefore(i - 1) + Len(steps[i - 1].dependencies)

rootSteps == {i \in StepIndexes : Len(steps[i].dependencies) = 0}

\* the positions of the edge list filled by the dependency loop for step i
DependencyPositions(i) ==
    LET first == Cardinality(rootSteps) + DependenciesBefore(i) + 1
    IN  first..(first + Len(steps[i].dependencies) - 1)

AllIds == StepIds \cup DepIds \cup {ArrowId}

\* C7: for every step s and identifier d, the dependency loop emits as many
\* edges d -> s.id for s as d occurs in s.dependencies: one per occurrence,
\* duplicates kept, whether or not d is the id of a step.
C7_OneEdgePerDependencyOccurrence ==
    Built =>
        \A i \in StepIndexes :
            /\ DependencyPositions(i) \subseteq 1..Len(edges)
            /\ \A p \in DependencyPositions(i) : edges[p].target = steps[i].id
            /\ \A d \in AllIds :
                  Cardinality({p \in DependencyPositions(i) : edges[p] = edge(d, steps[i].id)})
                      = CountIn(steps[i].dependencies, d)

C7_Witness ==
    /\ Built
    /\ Len(steps) = 2
    /\ steps[1].id = S2 /\ steps[1].dependencies = <<>>
    /\ steps[2].id = S2 /\ steps[2].dependencies = <<S1, S1>>
    /\ CountIn(edges, edge(S1, S2)) = 2

----------------------------------------------------------------------------
(* Properties of generateSVG *)

\* the class the styling rule gives a node, its first matching line deciding
ruleClass(node) ==
    CASE node.type = "start" -> "node-start"
      [] node.type = "end" -> "node-end"
      [] node.type = "agent" /\ node.isBottleneck = Some(TRUE) -> "node-bottleneck"
      [] OTHER -> "node-agent"

\* the position of node i's <circle> in the document: after <svg>, <style> and
\* the <line> elements, two elements per node
CirclePosition(i) == 2 + Len(edges) + 2 * i - 1

\* C8: every node's <circle> has the class of the first matching rule: start,
\* end, bottleneck, agent; a start or end node flagged as a bottleneck keeps
\* node-start / node-end.
C8_CircleClassFirstMatch ==
    svg # Undefined =>
        \A i \in 1..Len(nodes) :
            /\ Get(svg)[CirclePosition(i)].tag = "circle"
            /\ Get(svg)[CirclePosition(i)].class = ruleClass(nodes[i])

----------------------------------------------------------------------------
(* Properties of generateDot *)

Rendered == dot # Undefined

dotText == Get(dot)

\* 'digraph workflow {'
DigraphOpen == SubSeq(DotOpen, 1, Len(DotOpen) - 1)

\* the occurrences of '->' inside the strings generateDot copies into its output
ArrowsInStrings ==
    LET inNode(i) == Occurrences(nodes[i].id, Arrow) + Occurrences(nodes[i].label, Arrow)
        inEdge(p) == Occurrences(edges[p].source, Arrow) + Occurrences(edges[p].target, Arrow)
        sumNodes[i \in 0..Len(nodes)] == IF i = 0 THEN 0 ELSE sumNodes[i - 1] + inNode(i)
        sumEdges[p \in 0..Len(edges)] == IF p = 0 THEN 0 ELSE sumEdges[p - 1] + inEdge(p)
    IN  sumNodes[Len(nodes)] + sumEdges[Len(edges)]

DotFrame == StartsWith(dotText, DigraphOpen) /\ EndsWith(dotText, DotClose)

\* C9 as stated: the DOT text of a workflow's graph starts with
\* 'digraph workflow {', ends with '}\n' and holds exactly len(edges)
\* occurrences of '->', whatever the step ids and agent names are.
C9_ArrowCountIsEdgeCount ==
    (Built /\ Rendered) => DotFrame /\ Occurrences(dotText, Arrow) = Len(edges)

\* C9 amended: the DOT text starts with 'digraph workflow {', ends with '}\n'
\* and holds len(edges) occurrences of '->' plus the occurrences of '->' in
\* the node ids, node labels and edge endpoints copied into it.
C9_ArrowCountIsEdgeCountPlusCopied ==
    (Built /\ Rendered) =>
        DotFrame /\ Occurrences(dotText, Arrow) = Len(edges) + ArrowsInStrings

C9_Witness ==
    /\ Built /\ Rendered
    /\ Len(steps) = 2
    /\ steps[1].id = ArrowId /\ steps[1].dependencies = <<ArrowId>>
    /\ steps[2].id = S1 /\ steps[2].dependencies = <<ArrowId>>
    /\ Occurrences(dotText, Arrow) > Len(edges)

newlines == {i \in 1..Len(dotText) : dotText[i] = "\n"}

\* the position of the k-th line terminator, 0 for k = 0
LineEnd(k) ==
    IF k = 0 THEN 0
    ELSE CHOOSE i \in newlines : Cardinality({j \in newlines : j <= i}) = k

\* the k-th line of the DOT text, without its terminator
Line(k) == SubSeq(dotText, LineEnd(k - 1) + 1, LineEnd(k) - 1)

TxtShape == <<"s", "h", "a", "p", "e", "=">>

TxtStyle == <<"s", "t", "y", "l", "e", "=">>

TxtFillcolor == <<"f", "i", "l", "l", "c", "o", "l", "o", "r", "=">>

TxtCircle == TxtShape \o <<"c", "i", "r", "c", "l", "e">>

TxtFilled == TxtStyle \o <<"f", "i", "l", "l", "e", "d">>

TxtGreen == TxtFillcolor \o <<"g", "r", "e", "e", "n">>

TxtRed == TxtFillcolor \o <<"r", "e", "d">>

TxtOrange == TxtFillcolor \o <<"o", "r", "a", "n", "g", "e">>

\* the attributes the priority rule gives the node on this line
AttributesByRule(node, line) ==
    LET once(txt) == Occurrences(line, txt) = 1
        none(txt) == ~Contains(line, txt)
    IN  CASE node.type = "start" ->
                once(TxtCircle) /\ once(TxtFilled) /\ once(TxtGreen)
                /\ once(TxtShape) /\ once(TxtStyle) /\ once(TxtFillcolor)
          [] node.type = "end" ->
                once(TxtCircle) /\ once(TxtFilled) /\ once(TxtRed)
                /\ once(TxtShape) /\ once(TxtStyle) /\ once(TxtFillcolor)
          [] node.type = "agent" /\ node.isBottleneck = Some(TRUE) ->
                none(TxtShape) /\ once(TxtFilled) /\ once(TxtOrange)
                /\ once(TxtStyle) /\ once(TxtFillcolor)
          [] OTHER -> none(TxtShape) /\ none(TxtStyle) /\ none(TxtFillcolor)

\* C10: the DOT text has one statement per node, on the node's own line after
\* the three header lines, with label = the node's label and the attributes
\* of the first matching rule: start (circle, filled, green), end (circle,
\* filled, red), bottleneck (filled, orange, no shape), else the label alone;
\* orange is given exactly to the agent nodes flagged as bottlenecks.
C10_NodeStatementByPriority ==
    Rendered =>
        /\ Cardinality(newlines) = 3 + Len(nodes) + Len(edges) + 1
        /\ \A i \in 1..Len(nodes) :
              LET line == Line(3 + i)
              IN  /\ StartsWith(line, <<" ", " ", "\"">> \o nodes[i].id \o <<"\"", " ", "[">>
                                      \o <<"l", "a", "b", "e", "l", "=", "\"">>
                                      \o nodes[i].label \o <<"\"">>)
                  /\ EndsWith(line, <<"]", ";">>)
                  /\ AttributesByRule(nodes[i], line)
                  /\ Contains(line, TxtOrange)
                        <=> (nodes[i].type = "agent" /\ nodes[i].isBottleneck = Some(TRUE))

C10_Witness ==
    /\ Rendered
    /\ Len(nodes) = 2
    /\ nodes[1].type = "start" /\ nodes[1].isBottleneck = Some(TRUE)
    /\ nodes[2].type = "agent" /\ nodes[2].isBottleneck = Some(TRUE)
    /\ Len(edges) = 1
    /\ ~Contains(Line(4), TxtOrange)
    /\ Contains(Line(5), TxtOrange)

====
